---- MODULE Spec2Model ----
(***************************************************************************)
(* Model of the sequencer "add strip" operators                            *)
(* (source/blender/editors/space_sequencer/sequencer_add.c) and of the     *)
(* curve RNA accessors (source/blender/makesrna/intern/rna_curve.c).       *)
(*                                                                         *)
(* The timeline is a list of strips (seqbase); a strip is identified by    *)
(* its position in the list, 0 stands for a NULL Sequence pointer.  Every  *)
(* exec callback is one action.  While it runs it threads a context record *)
(* through the calls it makes, in the order of the C code, and every call  *)
(* into the strip library, the report list, the job system or the notifier *)
(* appends an event to the context's log, so the log of an operator is the *)
(* sequence of calls its exec made.  The window manager runs one operator  *)
(* at a time: `op` is the operator whose exec has returned and whose       *)
(* result is being handled, until the window manager frees it.             *)
(*                                                                         *)
(* Answers of library code that is outside these two files (does a file    *)
(* load, how long is the strip, does it overlap) are inputs of the action, *)
(* drawn from small sets.                                                  *)
(***************************************************************************)
EXTENDS Integers, Sequences, FiniteSets

VARIABLES
  seqbase,      \* ed->seqbasep: sequence of strips [machine, left, right]
  selected,     \* indices of the strips whose flag has SELECT
  act_seq,      \* ed->act_seq, the active strip (0 = NULL)
  bmain,        \* number of scene / movieclip / mask data-blocks in Main
  alloc_flag,   \* whether the strip library hands out new strips with SELECT set
  job_running,  \* WM_jobs_is_running(wm_job) of the sequencer proxy job
  job_queue,    \* strips whose proxy rebuild sits in pj->queue
  cu,           \* the Curve data-block fields used by the RNA accessors
  op,           \* the operator call being handled: inputs, pre-state, result, log
  rna,          \* the last RNA accessor call on the curve: its name, argument, result
  info,         \* a CharInfo of the curve's text: its mat_nr field
  cfra,         \* scene->r.cfra, the current frame
  inv           \* the last call of the invoke helpers: arguments, properties, result

vars ==
  <<seqbase, selected, act_seq, bmain, alloc_flag, job_running, job_queue, cu, op, rna,
    info, cfra, inv>>

invvars == <<cfra, inv>>

seqvars == <<seqbase, selected, act_seq, bmain, alloc_flag, job_running, job_queue>>

-----------------------------------------------------------------------------
(* Bounds of the model *)

MaxStrips == 2      \* an exec starts only on a timeline of fewer strips than this
MaxChannel == 1     \* the 'channel' property ranges over 1..MaxChannel
MaxFrame == 1       \* the 'frame_start' property ranges over 1..MaxFrame
MaxLen == 2         \* a strip created by the library is 1..MaxLen frames long
MaxFiles == 2       \* the 'files' collection holds 0..MaxFiles entries
MaxScenes == 2      \* new scenes are created while Main holds fewer scenes
MaxOffset == 3      \* the curve offset is set to values in -MaxOffset..MaxOffset
MaxCount == 3       \* a curve has 0..MaxCount material slots and text boxes
MaxInvokeStrips == 2 \* the invoke helpers see timelines of 0..MaxInvokeStrips strips
MaxShift == 1       \* an overlap is resolved by moving strips 1..MaxShift channels or frames

NULL == 0

MAXSEQ == 128       \* the highest channel of the sequencer

OPERATOR_FINISHED == "FINISHED"
OPERATOR_CANCELLED == "CANCELLED"

Channels == 1..MaxChannel
Frames == 1..MaxFrame
Lens == 1..MaxLen

Max(a, b) == IF a >= b THEN a ELSE b

-----------------------------------------------------------------------------
(* The context threaded through one exec *)

Ctx0 ==
  [seqbase |-> seqbase, selected |-> selected, act_seq |-> act_seq,
   bmain |-> bmain, job_running |-> job_running, job_queue |-> job_queue,
   reports |-> <<>>, log |-> <<>>, added |-> {}, ret |-> "NONE",
   start_frame |-> 0, movie_strips |-> {}, strip_col |-> {}, has_seq_overlap |-> FALSE,
   seq_sound |-> NULL, file |-> 0,
   overlap_fix |-> [overlap_mode |-> "SEQ_OVERLAP_SHUFFLE", by |-> 1]]

\* One call made by an exec: the function called, the strips it was called on or
\* returned, its answer, the start frame of the load descriptor at that point, the
\* entry of 'files' the exec was working on (0 outside the loops over 'files') and
\* the channel and handles those strips had at the call.
Emit(c, e, s, r) ==
  [c EXCEPT !.log = Append(@, [ev |-> e, strips |-> s, res |-> r,
                               frame |-> c.start_frame, file |-> c.file,
                               geom |-> [q \in s |-> c.seqbase[q]]])]

Ptr(seq) == IF seq = NULL THEN {} ELSE {seq}

Return(c, r) == [c EXCEPT !.ret = r]

\* BKE_report / BKE_reportf(op->reports, RPT_ERROR, ...)
BKE_report(c, msg) ==
  Emit([c EXCEPT !.reports = Append(@, msg)], "BKE_report", {}, FALSE)

\* BLI_findlink(listbase, index): the index-th element or NULL
BLI_findlink(count, index) ==
  IF index >= 0 /\ index < count THEN index + 1 ELSE NULL

\* ED_sequencer_deselect_all(scene): clears SELECT on every strip of the seqbase
ED_sequencer_deselect_all(c) ==
  Emit([c EXCEPT !.selected = {}], "ED_sequencer_deselect_all", {}, FALSE)

\* load_data_init_from_operator(&load_data, C, op): the fields of the descriptor the
\* execs read.  props.has_frame_end says whether the operator has a 'frame_end'
\* property (RNA_struct_find_property finds it); effect.end_frame stays at the 0 of
\* the memset without it.
load_data_init_from_operator(props) ==
  [start_frame |-> props.frame_start,
   channel |-> props.channel,
   image_len |-> 1,
   end_frame |-> IF props.has_frame_end THEN props.frame_end ELSE props.frame_start,
   effect_end_frame |-> IF props.has_frame_end THEN props.frame_end ELSE 0]

LoadData(c, props) ==
  Emit([c EXCEPT !.start_frame = load_data_init_from_operator(props).start_frame],
       "load_data_init_from_operator", {}, FALSE)

\* SEQ_add_*_strip(scene, ed->seqbasep, &load_data), api being the function called:
\* a new strip at the end of the seqbase, on the given channel, starting at
\* load_data.start_frame.
SEQ_add_strip(c, api, channel, len) ==
  LET seq == Len(c.seqbase) + 1
      strip == [machine |-> channel, left |-> c.start_frame, right |-> c.start_frame + len]
  IN Emit([c EXCEPT !.seqbase = Append(@, strip),
                    !.selected = IF alloc_flag THEN @ \cup {seq} ELSE @,
                    !.added = @ \cup {seq}],
          api, {seq}, TRUE)

\* SEQ_add_movie_strip / SEQ_add_sound_strip returning NULL: the file did not load
SEQ_add_failed(c, api) == Emit(c, api, {}, FALSE)

\* The strip the last SEQ_add_* call of the context returned
NewSeq(c) ==
  LET e == c.log[Len(c.log)] IN IF e.strips = {} THEN NULL ELSE Len(c.seqbase)

\* seq->flag |= SELECT; SEQ_select_active_set(scene, seq);
SelectAndActivate(c, seq) ==
  Emit([c EXCEPT !.selected = @ \cup {seq}, !.act_seq = seq], "SEQ_select_active_set", {seq}, TRUE)

\* SEQ_transform_seqbase_shuffle(ed->seqbasep, seq, scene): the strip goes up by the
\* channels that are taken at its place
SEQ_transform_seqbase_shuffle(c, seq, by) ==
  [Emit(c, "SEQ_transform_seqbase_shuffle", {seq}, TRUE)
     EXCEPT !.seqbase[seq].machine = @ + by]

\* The strip moved on in time by delta frames
TranslateStrip(strip, delta) ==
  [strip EXCEPT !.left = @ + delta, !.right = @ + delta]

\* SEQ_transform_handle_overlap(scene, ed->seqbasep, strip_col, NULL, use_sync_markers):
\* the overlap mode of the scene's tool settings decides which strips give way.  In
\* shuffle mode the strips of the collection move on in time, in expand mode the
\* strips outside the collection that start at or after it do; c.overlap_fix.by
\* is the number of frames the library finds for the move.
SEQ_transform_handle_overlap(c, strip_col) ==
  LET c1 == Emit(c, "SEQ_transform_handle_overlap", strip_col, TRUE)
      fix == c.overlap_fix
      start == CHOOSE f \in {c.seqbase[q].left : q \in strip_col} :
                 \A q \in strip_col : f <= c.seqbase[q].left
      moved == IF fix.overlap_mode = "SEQ_OVERLAP_SHUFFLE" THEN strip_col
               ELSE {q \in DOMAIN c.seqbase \ strip_col : c.seqbase[q].left >= start}
  IN IF strip_col = {} THEN c1
     ELSE [c1 EXCEPT !.seqbase =
             [q \in DOMAIN @ |->
                IF q \in moved THEN TranslateStrip(@[q], fix.by) ELSE @[q]]]

\* seq_load_apply_generic_options with the two overlap routines exchanged
seq_load_apply_generic_options_swapped(c, props, seq, ovl) ==
  LET c0 == Emit(c, "seq_load_apply_generic_options", Ptr(seq), FALSE) IN
  IF seq = NULL THEN c0
  ELSE
    LET c1 == IF props.replace_sel THEN SelectAndActivate(c0, seq) ELSE c0
        c2 == IF props.overlap THEN c1
              ELSE Emit(c1, "SEQ_transform_test_overlap", {seq}, ovl > 0)
    IN IF props.overlap \/ ovl = 0 THEN c2
       ELSE IF props.overlap_shuffle_override
            THEN SEQ_transform_seqbase_shuffle(c2, seq, ovl)
            ELSE SEQ_transform_handle_overlap(c2, {seq})

\* seq_load_apply_generic_options(C, op, seq); ovl is the number of channels taken
\* at the place of this strip (SEQ_transform_test_overlap answers ovl > 0), asked
\* only when 'overlap' is false.
seq_load_apply_generic_options(c, props, seq, ovl) ==
  LET c0 == Emit(c, "seq_load_apply_generic_options", Ptr(seq), FALSE) IN
  IF seq = NULL THEN c0
  ELSE
    LET c1 == IF props.replace_sel THEN SelectAndActivate(c0, seq) ELSE c0
        c2 == IF props.overlap THEN c1
              ELSE Emit(c1, "SEQ_transform_test_overlap", {seq}, ovl > 0)
    IN IF props.overlap \/ ovl = 0 THEN c2
       ELSE IF props.overlap_shuffle_override
            THEN SEQ_transform_handle_overlap(c2, {seq})
            ELSE SEQ_transform_seqbase_shuffle(c2, seq, ovl)

\* The test that leaves the strip out of the collection
seq_load_apply_generic_options_only_test_overlap_no_append(c, props, seq, ovl) ==
  LET c0 == Emit(c, "seq_load_apply_generic_options_only_test_overlap", Ptr(seq), FALSE) IN
  IF seq = NULL THEN c0
  ELSE
    LET c1 == IF props.replace_sel THEN SelectAndActivate(c0, seq) ELSE c0
        c3 == Emit(c1, "SEQ_transform_test_overlap", {seq}, ovl > 0)
    IN [c3 EXCEPT !.has_seq_overlap = @ \/ ovl > 0]

\* seq_load_apply_generic_options_only_test_overlap(C, op, seq, strip_col):
\* the context's has_seq_overlap is or-ed with the returned value.
seq_load_apply_generic_options_only_test_overlap(c, props, seq, ovl) ==
  LET c0 == Emit(c, "seq_load_apply_generic_options_only_test_overlap", Ptr(seq), FALSE) IN
  IF seq = NULL THEN c0
  ELSE
    LET c1 == IF props.replace_sel THEN SelectAndActivate(c0, seq) ELSE c0
        c2 == [c1 EXCEPT !.strip_col = @ \cup {seq}]
        c3 == Emit(c2, "SEQ_transform_test_overlap", {seq}, ovl > 0)
    IN [c3 EXCEPT !.has_seq_overlap = @ \/ ovl > 0]

\* DEG_id_tag_update(&scene->id, ID_RECALC_SEQUENCER_STRIPS)
DEG_id_tag_update(c) == Emit(c, "DEG_id_tag_update", {}, FALSE)

\* DEG_relations_tag_update(bmain)
DEG_relations_tag_update(c) == Emit(c, "DEG_relations_tag_update", {}, FALSE)

\* WM_event_add_notifier(C, NC_SCENE | ND_SEQUENCER, scene)
WM_event_add_notifier(c) == Emit(c, "WM_event_add_notifier", {}, FALSE)

-----------------------------------------------------------------------------
(* Scene, movie clip and mask strips *)

\* sequencer_add_scene_strip_exec deselecting before it looks the scene up
sequencer_add_scene_strip_exec_deselect_first(c, props, env) ==
  LET sce_seq == BLI_findlink(c.bmain.scenes, props.id)
      c1 == IF props.replace_sel THEN ED_sequencer_deselect_all(c) ELSE c
  IN IF sce_seq = NULL
     THEN Return(BKE_report(c1, "Scene not found"), OPERATOR_CANCELLED)
     ELSE
       LET c2 == SEQ_add_strip(LoadData(c1, props), "SEQ_add_scene_strip", props.channel,
                               env.len)
           c3 == seq_load_apply_generic_options(c2, props, NewSeq(c2), env.ovl)
       IN Return(WM_event_add_notifier(DEG_relations_tag_update(DEG_id_tag_update(c3))),
                 OPERATOR_FINISHED)

sequencer_add_scene_strip_exec(c, props, env) ==
  LET sce_seq == BLI_findlink(c.bmain.scenes, props.id) IN
  IF sce_seq = NULL
  THEN Return(BKE_report(c, "Scene not found"), OPERATOR_CANCELLED)
  ELSE
    LET c1 == IF props.replace_sel THEN ED_sequencer_deselect_all(c) ELSE c
        c2 == SEQ_add_strip(LoadData(c1, props), "SEQ_add_scene_strip", props.channel, env.len)
        c3 == seq_load_apply_generic_options(c2, props, NewSeq(c2), env.ovl)
    IN Return(WM_event_add_notifier(DEG_relations_tag_update(DEG_id_tag_update(c3))),
              OPERATOR_FINISHED)

sequencer_add_movieclip_strip_exec(c, props, env) ==
  LET clip == BLI_findlink(c.bmain.movieclips, props.id) IN
  IF clip = NULL
  THEN Return(BKE_report(c, "Movie clip not found"), OPERATOR_CANCELLED)
  ELSE
    LET c1 == IF props.replace_sel THEN ED_sequencer_deselect_all(c) ELSE c
        c2 == SEQ_add_strip(LoadData(c1, props), "SEQ_add_movieclip_strip", props.channel,
                            env.len)
        c3 == seq_load_apply_generic_options(c2, props, NewSeq(c2), env.ovl)
    IN Return(WM_event_add_notifier(DEG_id_tag_update(c3)), OPERATOR_FINISHED)

sequencer_add_mask_strip_exec(c, props, env) ==
  LET mask == BLI_findlink(c.bmain.masks, props.id) IN
  IF mask = NULL
  THEN Return(BKE_report(c, "Mask not found"), OPERATOR_CANCELLED)
  ELSE
    LET c1 == IF props.replace_sel THEN ED_sequencer_deselect_all(c) ELSE c
        c2 == SEQ_add_strip(LoadData(c1, props), "SEQ_add_mask_strip", props.channel, env.len)
        c3 == seq_load_apply_generic_options(c2, props, NewSeq(c2), env.ovl)
    IN Return(WM_event_add_notifier(DEG_id_tag_update(c3)), OPERATOR_FINISHED)

\* env.scene_new: whether ED_scene_sequencer_add returned a scene
sequencer_add_scene_strip_new_exec(c, props, env) ==
  LET c1 == IF props.replace_sel THEN ED_sequencer_deselect_all(c) ELSE c
      c2 == LoadData(c1, props)
  IN IF ~env.scene_new
     THEN Return(Emit(c2, "ED_scene_sequencer_add", {}, FALSE), OPERATOR_CANCELLED)
     ELSE
       LET c3 == Emit([c2 EXCEPT !.bmain.scenes = @ + 1], "ED_scene_sequencer_add", {}, TRUE)
           c4 == SEQ_add_strip(c3, "SEQ_add_scene_strip", props.channel, env.len)
           c5 == seq_load_apply_generic_options(c4, props, NewSeq(c4), env.ovl)
       IN Return(WM_event_add_notifier(DEG_relations_tag_update(DEG_id_tag_update(c5))),
                 OPERATOR_FINISHED)

-----------------------------------------------------------------------------
(* Movie strips and the proxy job *)

RECURSIVE ProxyRebuildAll(_, _)
\* SEQ_ITERATOR_FOREACH (seq, movie_strips) { SEQ_proxy_set ...; SEQ_proxy_rebuild_context }
ProxyRebuildAll(c, strips) ==
  IF strips = {} THEN c
  ELSE LET seq == CHOOSE s \in strips : \A t \in strips : s <= t
       IN ProxyRebuildAll(
            Emit([c EXCEPT !.job_queue = @ \cup {seq}], "SEQ_proxy_rebuild_context", {seq}, TRUE),
            strips \ {seq})

\* seq_build_proxy starting the job without asking WM_jobs_is_running
seq_build_proxy_always_start(c, props, movie_strips) ==
  IF ~props.proxy_auto THEN c
  ELSE
    LET c1 == ProxyRebuildAll(c, movie_strips)
    IN Emit([c1 EXCEPT !.job_running = TRUE], "WM_jobs_start", {}, TRUE)

\* seq_build_proxy(C, movie_strips); props.proxy_auto is
\* U.sequencer_proxy_setup == USER_SEQ_PROXY_SETUP_AUTOMATIC
seq_build_proxy(c, props, movie_strips) ==
  IF ~props.proxy_auto THEN c
  ELSE
    LET c1 == ProxyRebuildAll(c, movie_strips)
    IN IF ~c1.job_running
       THEN Emit([c1 EXCEPT !.job_running = TRUE], "WM_jobs_start", {}, TRUE)
       ELSE c1

\* The clamp setting only the left handle of the sound strip
sequencer_add_movie_clamp_sound_strip_length_left(c, seq_movie, seq_sound) ==
  IF seq_movie = NULL \/ seq_sound = NULL THEN c
  ELSE [c EXCEPT !.seqbase[seq_sound].left = c.seqbase[seq_movie].left]

\* sequencer_add_movie_clamp_sound_strip_length(scene, seq_movie, seq_sound)
sequencer_add_movie_clamp_sound_strip_length(c, seq_movie, seq_sound) ==
  IF seq_movie = NULL \/ seq_sound = NULL THEN c
  ELSE [c EXCEPT !.seqbase[seq_sound].right = c.seqbase[seq_movie].right,
                 !.seqbase[seq_sound].left = c.seqbase[seq_movie].left]

\* SEQ_add_movie_strip(bmain, scene, ed->seqbasep, load_data)
SEQ_add_movie_strip(c, props, file) ==
  IF file.movie
  THEN SEQ_add_strip(c, "SEQ_add_movie_strip", props.channel, file.len)
  ELSE SEQ_add_failed(c, "SEQ_add_movie_strip")

\* SEQ_add_sound_strip(bmain, scene, ed->seqbasep, load_data)
SEQ_add_sound_strip(c, props, file) ==
  IF file.sound
  THEN SEQ_add_strip(c, "SEQ_add_sound_strip", props.channel, file.slen)
  ELSE SEQ_add_failed(c, "SEQ_add_sound_strip")

\* The part the single and the multiple import share after the movie strip loaded:
\* if (RNA_boolean_get(op->ptr, "sound")) { add the sound strip, clamp it,
\* if (seq_sound) seq_movie->machine++; }.  Leaves the sound strip in c.seq_sound.
MovieAddSound(c, props, file, seq_movie) ==
  IF ~props.sound THEN [c EXCEPT !.seq_sound = NULL]
  ELSE
    LET c1 == SEQ_add_sound_strip(c, props, file)
        seq_sound == NewSeq(c1)
        c2 == sequencer_add_movie_clamp_sound_strip_length(c1, seq_movie, seq_sound)
    IN IF seq_sound # NULL
       THEN [c2 EXCEPT !.seqbase[seq_movie].machine = @ + 1, !.seq_sound = seq_sound]
       ELSE [c2 EXCEPT !.seq_sound = NULL]

OverlapShuffleOverride(props) == ~props.overlap /\ props.overlap_shuffle_override

\* SEQ_transform_handle_overlap(scene, ed->seqbasep, strip_col, NULL, use_sync_markers)
HandleOverlapCollection(c) ==
  IF c.has_seq_overlap THEN SEQ_transform_handle_overlap(c, c.strip_col) ELSE c

\* The iteration moving the start frame on by one frame for a file that did not load
MovieFile_advance_on_fail(c, props, file) ==
  LET c1 == SEQ_add_movie_strip(c, props, file)
      seq_movie == NewSeq(c1)
  IN IF seq_movie = NULL
     THEN [BKE_report(c1, "File '%s' could not be loaded") EXCEPT !.start_frame = @ + 1]
     ELSE
       LET c2 == MovieAddSound(c1, props, file, seq_movie)
           seq_sound == c2.seq_sound
           c3 == [c2 EXCEPT !.start_frame =
                    @ + c2.seqbase[seq_movie].right - c2.seqbase[seq_movie].left]
           c4 == IF OverlapShuffleOverride(props)
                 THEN seq_load_apply_generic_options_only_test_overlap(
                        seq_load_apply_generic_options_only_test_overlap(
                          c3, props, seq_sound, file.ovl_sound),
                        props, seq_movie, file.ovl_movie)
                 ELSE seq_load_apply_generic_options(
                        seq_load_apply_generic_options(c3, props, seq_sound, file.ovl_sound),
                        props, seq_movie, file.ovl_movie)
       IN [c4 EXCEPT !.movie_strips = @ \cup {seq_movie}]

\* One iteration of the RNA_BEGIN (op->ptr, itemptr, "files") loop of
\* sequencer_add_movie_multiple_strips
MovieFile(c, props, file) ==
  LET c1 == SEQ_add_movie_strip(c, props, file)
      seq_movie == NewSeq(c1)
  IN IF seq_movie = NULL
     THEN BKE_report(c1, "File '%s' could not be loaded")
     ELSE
       LET c2 == MovieAddSound(c1, props, file, seq_movie)
           seq_sound == c2.seq_sound
           c3 == [c2 EXCEPT !.start_frame =
                    @ + c2.seqbase[seq_movie].right - c2.seqbase[seq_movie].left]
           c4 == IF OverlapShuffleOverride(props)
                 THEN seq_load_apply_generic_options_only_test_overlap(
                        seq_load_apply_generic_options_only_test_overlap(
                          c3, props, seq_sound, file.ovl_sound),
                        props, seq_movie, file.ovl_movie)
                 ELSE seq_load_apply_generic_options(
                        seq_load_apply_generic_options(c3, props, seq_sound, file.ovl_sound),
                        props, seq_movie, file.ovl_movie)
       IN [c4 EXCEPT !.movie_strips = @ \cup {seq_movie}]

RECURSIVE MovieFiles(_, _, _, _)
MovieFiles(c, props, files, i) ==
  IF i > Len(files) THEN c
  ELSE MovieFiles(MovieFile([c EXCEPT !.file = i], props, files[i]), props, files, i + 1)

RECURSIVE MovieFiles_break(_, _, _, _)
\* The loop over 'files' leaving at the first file that does not load
MovieFiles_break(c, props, files, i) ==
  IF i > Len(files) THEN c
  ELSE LET c1 == MovieFile([c EXCEPT !.file = i], props, files[i])
       IN IF c1.log[Len(c1.log)].ev = "BKE_report"
          THEN c1
          ELSE MovieFiles_break(c1, props, files, i + 1)

sequencer_add_movie_multiple_strips_break(c, props, files) ==
  LET c1 == [MovieFiles_break(c, props, files, 1) EXCEPT !.file = 0]
  IN IF OverlapShuffleOverride(props) THEN HandleOverlapCollection(c1) ELSE c1

sequencer_add_movie_multiple_strips(c, props, files) ==
  LET c1 == [MovieFiles(c, props, files, 1) EXCEPT !.file = 0]
  IN IF OverlapShuffleOverride(props) THEN HandleOverlapCollection(c1) ELSE c1

sequencer_add_movie_single_strip(c, props, file) ==
  LET c1 == SEQ_add_movie_strip(c, props, file)
      seq_movie == NewSeq(c1)
  IN IF seq_movie = NULL
     THEN BKE_report(c1, "File '%s' could not be loaded")
     ELSE
       LET c2 == MovieAddSound(c1, props, file, seq_movie)
           seq_sound == c2.seq_sound
           c3 == IF OverlapShuffleOverride(props)
                 THEN HandleOverlapCollection(
                        seq_load_apply_generic_options_only_test_overlap(
                          seq_load_apply_generic_options_only_test_overlap(
                            c2, props, seq_sound, file.ovl_sound),
                          props, seq_movie, file.ovl_movie))
                 ELSE seq_load_apply_generic_options(
                        seq_load_apply_generic_options(c2, props, seq_sound, file.ovl_sound),
                        props, seq_movie, file.ovl_movie)
       IN [c3 EXCEPT !.movie_strips = @ \cup {seq_movie}]

\* sequencer_add_movie_strip_exec without the test of the movie_strips collection
sequencer_add_movie_strip_exec_no_test(c, props, files) ==
  LET c1 == LoadData(c, props)
      c2 == IF props.replace_sel THEN ED_sequencer_deselect_all(c1) ELSE c1
      c3 == IF props.tot_files > 1
            THEN sequencer_add_movie_multiple_strips(c2, props, files)
            ELSE sequencer_add_movie_single_strip(c2, props, files[1])
  IN Return(WM_event_add_notifier(DEG_id_tag_update(DEG_relations_tag_update(
              seq_build_proxy(c3, props, c3.movie_strips)))),
            OPERATOR_FINISHED)

sequencer_add_movie_strip_exec(c, props, files) ==
  LET c1 == LoadData(c, props)
      c2 == IF props.replace_sel THEN ED_sequencer_deselect_all(c1) ELSE c1
      c3 == IF props.tot_files > 1
            THEN sequencer_add_movie_multiple_strips(c2, props, files)
            ELSE sequencer_add_movie_single_strip(c2, props, files[1])
  IN IF Cardinality(c3.movie_strips) = 0
     THEN Return(c3, OPERATOR_CANCELLED)
     ELSE Return(WM_event_add_notifier(DEG_id_tag_update(DEG_relations_tag_update(
                   seq_build_proxy(c3, props, c3.movie_strips)))),
                 OPERATOR_FINISHED)

-----------------------------------------------------------------------------
(* Sound strips *)

RECURSIVE SoundFiles(_, _, _, _)
\* The RNA_BEGIN (op->ptr, itemptr, "files") loop of sequencer_add_sound_multiple_strips
SoundFiles(c, props, files, i) ==
  IF i > Len(files) THEN c
  ELSE
    LET c1 == SEQ_add_sound_strip([c EXCEPT !.file = i], props, files[i])
        seq == NewSeq(c1)
        c2 == IF seq = NULL
              THEN BKE_report(c1, "File '%s' could not be loaded")
              ELSE LET c3 == seq_load_apply_generic_options(c1, props, seq, files[i].ovl_sound)
                   IN [c3 EXCEPT !.start_frame =
                         @ + c3.seqbase[seq].right - c3.seqbase[seq].left]
    IN SoundFiles(c2, props, files, i + 1)

sequencer_add_sound_multiple_strips(c, props, files) ==
  [SoundFiles(c, props, files, 1) EXCEPT !.file = 0]

\* Returns false (c.ret = "false") when the file did not load
sequencer_add_sound_single_strip(c, props, file) ==
  LET c1 == SEQ_add_sound_strip(c, props, file)
      seq == NewSeq(c1)
  IN IF seq = NULL
     THEN Return(BKE_report(c1, "File '%s' could not be loaded"), "false")
     ELSE Return(seq_load_apply_generic_options(c1, props, seq, file.ovl_sound), "true")

sequencer_add_sound_strip_exec(c, props, files) ==
  LET c1 == LoadData(c, props)
      c2 == IF props.replace_sel THEN ED_sequencer_deselect_all(c1) ELSE c1
      c3 == IF props.tot_files > 1
            THEN sequencer_add_sound_multiple_strips(c2, props, files)
            ELSE sequencer_add_sound_single_strip(c2, props, files[1])
  IN IF props.tot_files <= 1 /\ c3.ret = "false"
     THEN Return(c3, OPERATOR_CANCELLED)
     ELSE Return(WM_event_add_notifier(DEG_id_tag_update(DEG_relations_tag_update(c3))),
                 OPERATOR_FINISHED)

-----------------------------------------------------------------------------
(* Image strips *)

INT32_MAX == 2147483647

INT32_MIN == (0 - INT32_MAX) - 1

MinSet(S) == CHOOSE m \in S : \A x \in S : m <= x
MaxSet(S) == CHOOSE m \in S : \A x \in S : m >= x

\* sequencer_image_seq_get_minmax_frame(op, sfra, &minframe, &numdigits): frames are
\* the frame numbers BLI_path_frame_get found in the names of 'files'.  minframe
\* and maxframe start at INT32_MAX and INT32_MIN and take the min_ii / max_ii of
\* every frame number; a minframe that is still INT32_MAX after the loop counts as
\* no frame number found.
sequencer_image_seq_get_minmax_frame(frames, sfra) ==
  LET minframe0 == MinSet(frames \cup {INT32_MAX})
      maxframe0 == MaxSet(frames \cup {INT32_MIN})
      minframe == IF minframe0 = INT32_MAX THEN sfra ELSE minframe0
      maxframe == IF minframe0 = INT32_MAX THEN minframe + 1 ELSE maxframe0
  IN maxframe - minframe + 1

sequencer_add_image_strip_calculate_length(props, env) ==
  IF env.use_placeholders
  THEN sequencer_image_seq_get_minmax_frame(env.frames, props.frame_start)
  ELSE props.tot_files

\* sequencer_add_image_strip_exec tagging and notifying before it applies the options
sequencer_add_image_strip_exec_notify_first(c, props, env) ==
  LET c1 == LoadData(c, props)
      load_data == load_data_init_from_operator(props)
      image_len == sequencer_add_image_strip_calculate_length(props, env)
  IN IF image_len = 0
     THEN Return(c1, OPERATOR_CANCELLED)
     ELSE
       LET c2 == IF props.replace_sel THEN ED_sequencer_deselect_all(c1) ELSE c1
           c3 == SEQ_add_strip(c2, "SEQ_add_image_strip", props.channel, image_len)
           seq == NewSeq(c3)
           c4 == IF image_len = 1
                 THEN [c3 EXCEPT !.seqbase[seq].right = load_data.end_frame]
                 ELSE c3
           c5 == WM_event_add_notifier(DEG_id_tag_update(c4))
       IN Return(seq_load_apply_generic_options(c5, props, seq, env.ovl), OPERATOR_FINISHED)

sequencer_add_image_strip_exec(c, props, env) ==
  LET c1 == LoadData(c, props)
      load_data == load_data_init_from_operator(props)
      image_len == sequencer_add_image_strip_calculate_length(props, env)
  IN IF image_len = 0
     THEN Return(c1, OPERATOR_CANCELLED)
     ELSE
       LET c2 == IF props.replace_sel THEN ED_sequencer_deselect_all(c1) ELSE c1
           c3 == SEQ_add_strip(c2, "SEQ_add_image_strip", props.channel, image_len)
           seq == NewSeq(c3)
           c4 == IF image_len = 1
                 THEN [c3 EXCEPT !.seqbase[seq].right = load_data.end_frame]
                 ELSE c3
           c5 == seq_load_apply_generic_options(c4, props, seq, env.ovl)
       IN Return(WM_event_add_notifier(DEG_id_tag_update(c5)), OPERATOR_FINISHED)

-----------------------------------------------------------------------------
(* Effect strips *)

max_iii(a, b, d) == Max(Max(a, b), d)

Machine(c, seq) == IF seq = NULL THEN 0 ELSE c.seqbase[seq].machine

\* The exec clearing the selection before it looks the inputs up
sequencer_add_effect_strip_exec_deselect_first(c, props, env) ==
  LET c0 == IF props.replace_sel THEN ED_sequencer_deselect_all(LoadData(c, props))
            ELSE LoadData(c, props)
      c1 == Emit(c0, "seq_effect_find_selected", c0.selected, env.found)
      load_data == load_data_init_from_operator(props)
  IN IF ~env.found
     THEN Return(BKE_report(c1, env.error_msg), OPERATOR_CANCELLED)
     ELSE
       LET seq1 == env.inputs[1]
           seq2 == env.inputs[2]
           seq3 == env.inputs[3]
           chan == max_iii(Machine(c1, seq1), Machine(c1, seq2), Machine(c1, seq3))
           channel == IF ~props.channel_set /\ seq1 # NULL /\ chan < MAXSEQ
                      THEN chan
                      ELSE load_data.channel
           c3 == SEQ_add_strip(c1, "SEQ_add_effect_strip", channel, env.len)
           c4 == seq_load_apply_generic_options(c3, props, NewSeq(c3), env.ovl)
       IN Return(WM_event_add_notifier(DEG_id_tag_update(c4)), OPERATOR_FINISHED)

\* env.found and env.inputs = <<seq1, seq2, seq3>> are what seq_effect_find_selected
\* answered; env.error_msg is its message
sequencer_add_effect_strip_exec(c, props, env) ==
  LET c1 == Emit(LoadData(c, props), "seq_effect_find_selected", c.selected, env.found)
      load_data == load_data_init_from_operator(props)
  IN IF ~env.found
     THEN Return(BKE_report(c1, env.error_msg), OPERATOR_CANCELLED)
     ELSE
       LET c2 == IF props.replace_sel THEN ED_sequencer_deselect_all(c1) ELSE c1
           seq1 == env.inputs[1]
           seq2 == env.inputs[2]
           seq3 == env.inputs[3]
           chan == max_iii(Machine(c2, seq1), Machine(c2, seq2), Machine(c2, seq3))
           channel == IF ~props.channel_set /\ seq1 # NULL /\ chan < MAXSEQ
                      THEN chan
                      ELSE load_data.channel
           c3 == SEQ_add_strip(c2, "SEQ_add_effect_strip", channel, env.len)
           c4 == seq_load_apply_generic_options(c3, props, NewSeq(c3), env.ovl)
       IN Return(WM_event_add_notifier(DEG_id_tag_update(c4)), OPERATOR_FINISHED)

-----------------------------------------------------------------------------
(* Inputs *)

\* The properties of sequencer_generic_props__internal
GenericProps ==
  [replace_sel : BOOLEAN, overlap : BOOLEAN, overlap_shuffle_override : BOOLEAN,
   channel : Channels, frame_start : Frames, frame_end : {MaxFrame + MaxLen},
   id : {0}, sound : {FALSE}, proxy_auto : {FALSE}, tot_files : {0},
   channel_set : {TRUE}, has_frame_end : {FALSE}]

\* The answers to the overlap test of a new strip: the number of channels taken at
\* its place.  The strips of one exec lie end to end or on channels of their own,
\* so a strip overlaps only on a timeline that had strips before the exec.
Ovl(p) == IF p.overlap \/ seqbase = <<>> THEN {0} ELSE 0..MaxShift

\* What SEQ_transform_handle_overlap does when it is called: the overlap mode of the
\* tool settings and the distance of the move
OverlapFixes == [overlap_mode : {"SEQ_OVERLAP_SHUFFLE", "SEQ_OVERLAP_EXPAND"}, by : 1..MaxShift]

Fix(p) == IF OverlapShuffleOverride(p) THEN OverlapFixes ELSE {Ctx0.overlap_fix}

\* The context of an exec that starts on the current scene
Ctx(fix) == [Ctx0 EXCEPT !.overlap_fix = fix]

StripEnv(p) == [len : Lens, ovl : Ovl(p), scene_new : {TRUE}]

Idle == op.name = "none"

Enabled == Idle /\ Len(seqbase) < MaxStrips

\* The exec returned: the scene, Main and the job system take the values of the
\* context, and the operator keeps the call and its result.
Commit(name, props, ctx) ==
  \E c \in {ctx} :
    /\ seqbase' = c.seqbase
    /\ selected' = c.selected
    /\ act_seq' = c.act_seq
    /\ bmain' = c.bmain
    /\ job_running' = c.job_running
    /\ job_queue' = c.job_queue
    /\ op' = [name |-> name, props |-> props, ret |-> c.ret, log |-> c.log,
              reports |-> c.reports, added |-> c.added,
              pre_selected |-> selected, pre_act |-> act_seq,
              pre_len |-> Len(seqbase), pre_running |-> job_running,
              pre_queue |-> job_queue]
    /\ UNCHANGED <<alloc_flag, cu, rna, info, invvars>>

-----------------------------------------------------------------------------
(* Actions *)

SceneStripAdd ==
  /\ Enabled
  /\ \E p \in GenericProps, id \in 0..MaxScenes :
       \E e \in StripEnv(p), fix \in Fix(p) :
         /\ Commit("scene", [p EXCEPT !.id = id],
                   sequencer_add_scene_strip_exec(Ctx(fix), [p EXCEPT !.id = id], e))

MovieclipStripAdd ==
  /\ Enabled
  /\ \E p \in GenericProps, id \in 0..1 :
       \E e \in StripEnv(p), fix \in Fix(p) :
         /\ Commit("movieclip", [p EXCEPT !.id = id],
                   sequencer_add_movieclip_strip_exec(Ctx(fix), [p EXCEPT !.id = id], e))

MaskStripAdd ==
  /\ Enabled
  /\ \E p \in GenericProps, id \in 0..1 :
       \E e \in StripEnv(p), fix \in Fix(p) :
         /\ Commit("mask", [p EXCEPT !.id = id],
                   sequencer_add_mask_strip_exec(Ctx(fix), [p EXCEPT !.id = id], e))

SceneStripAddNew ==
  /\ Enabled
  /\ \E p \in GenericProps, sn \in BOOLEAN :
       \E e \in StripEnv(p), fix \in Fix(p) :
         /\ bmain.scenes < MaxScenes
         /\ Commit("scene_new", p,
                   sequencer_add_scene_strip_new_exec(Ctx(fix), p,
                                                      [e EXCEPT !.scene_new = sn]))

\* What the library answers for one entry of 'files' of the movie operator: does the
\* movie load, how long is it, does its sound load, how long is that, and do the
\* two strips overlap others.  Answers that are never asked for are fixed.
MovieFileEnv(p) ==
  {f \in [movie : BOOLEAN, len : Lens, sound : BOOLEAN, slen : Lens,
          ovl_movie : Ovl(p), ovl_sound : Ovl(p)] :
     /\ ~f.movie => (f.len = 1 /\ ~f.sound /\ f.ovl_movie = 0)
     /\ ~p.sound => ~f.sound
     /\ ~f.sound => (f.slen = 1 /\ f.ovl_sound = 0)}

SoundFileEnv(p) ==
  {f \in [movie : {FALSE}, len : {1}, sound : BOOLEAN, slen : Lens,
          ovl_movie : {0}, ovl_sound : Ovl(p)] :
     ~f.sound => (f.slen = 1 /\ f.ovl_sound = 0)}

\* The 'files' collection: tot_files entries; with none the path is 'filepath'.
FileLists(E, tot_files) == [1..Max(1, tot_files) -> E]

MovieStripAdd ==
  /\ Enabled
  /\ \E p \in GenericProps, sound \in BOOLEAN, proxy_auto \in BOOLEAN, tot_files \in 0..MaxFiles :
       LET props == [p EXCEPT !.sound = sound, !.proxy_auto = proxy_auto,
                              !.tot_files = tot_files]
       IN \E files \in FileLists(MovieFileEnv(props), tot_files), fix \in Fix(p) :
            /\ Commit("movie", props, sequencer_add_movie_strip_exec(Ctx(fix), props, files))

SoundStripAdd ==
  /\ Enabled
  /\ \E p \in GenericProps, tot_files \in 0..MaxFiles :
       LET props == [p EXCEPT !.tot_files = tot_files]
       IN \E files \in FileLists(SoundFileEnv(props), tot_files), fix \in Fix(p) :
            /\ Commit("sound", props, sequencer_add_sound_strip_exec(Ctx(fix), props, files))

\* The frame numbers found in the names of tot_files files: numbers of 1..MaxFiles,
\* or the one number INT32_MAX
FrameSets(tot_files) ==
  {F \in SUBSET (1..MaxFiles) : Cardinality(F) <= tot_files}
    \cup (IF tot_files >= 1 THEN {{INT32_MAX}} ELSE {})

ImageStripAdd ==
  /\ Enabled
  /\ \E p \in GenericProps, tot_files \in 0..MaxFiles, use_placeholders \in BOOLEAN :
       LET props == [p EXCEPT !.tot_files = tot_files, !.has_frame_end = TRUE]
       IN \E ovl \in Ovl(p), fix \in Fix(p),
             frames \in IF use_placeholders THEN FrameSets(tot_files) ELSE {{}} :
            /\ Commit("image", props,
                      sequencer_add_image_strip_exec(
                        Ctx(fix), props,
                        [use_placeholders |-> use_placeholders, frames |-> frames,
                         ovl |-> ovl]))

\* What seq_effect_find_selected can answer on the current selection: up to three
\* different selected strips, filled from the first, or no input at all
EffectInputs ==
  {i \in [1..3 -> selected \cup {NULL}] :
     /\ (i[2] # NULL => i[1] # NULL) /\ (i[3] # NULL => i[2] # NULL)
     /\ \A j, k \in 1..3 : (j # k /\ i[j] # NULL) => i[j] # i[k]}

EffectStripAdd ==
  /\ Enabled
  /\ \E p \in GenericProps, channel_set \in BOOLEAN, found \in BOOLEAN :
       LET props == [p EXCEPT !.channel_set = channel_set, !.has_frame_end = TRUE]
       IN \E e \in StripEnv(p), fix \in Fix(p),
             inputs \in IF found THEN EffectInputs ELSE {[j \in 1..3 |-> NULL]} :
            /\ channel_set \/ p.channel = 1
            /\ Commit("effect", props,
                      sequencer_add_effect_strip_exec(
                        Ctx(fix), props,
                        [found |-> found, inputs |-> inputs, len |-> e.len, ovl |-> e.ovl,
                         error_msg |-> "effect inputs not found"]))

\* The proxy job ran to its end on its worker thread
JobFinish ==
  /\ Idle
  /\ job_running
  /\ job_running' = FALSE
  /\ job_queue' = {}
  /\ UNCHANGED <<seqbase, selected, act_seq, bmain, alloc_flag, cu, op, rna, info, invvars>>

-----------------------------------------------------------------------------
(* Curve RNA accessors (rna_curve.c).

   cu->offset and the value of the 'offset' property are C floats.  A float is the
   record [m, e] that stands for m * 2^e, with m odd (or m = 0 and e = 0) and
   |m| < 2^FLT_MANT_DIG; an addition is the exact sum rounded to the nearest float,
   ties to the even mantissa.  Exponents stay far from the ends of the float
   range, so there are no subnormals, infinities or NaNs here. *)

FLT_MANT_DIG == 24   \* bits of the mantissa of a C float

Abs(n) == IF n < 0 THEN 0 - n ELSE n

Min(a, b) == IF a <= b THEN a ELSE b

RECURSIVE Pow2(_)
Pow2(k) == IF k <= 0 THEN 1 ELSE 2 * Pow2(k - 1)

RECURSIVE Bits(_)
\* The number of binary digits of n >= 0
Bits(n) == IF n = 0 THEN 0 ELSE 1 + Bits(n \div 2)

RECURSIVE Canon(_, _)
\* The record of m * 2^e
Canon(m, e) ==
  IF m = 0 THEN [m |-> 0, e |-> 0]
  ELSE IF m % 2 = 0 THEN Canon(m \div 2, e + 1)
  ELSE [m |-> m, e |-> e]

\* The float a whole number converts to (exact below 2^FLT_MANT_DIG)
IntFloat(n) == Canon(n, 0)

\* n * 2^e rounded to the nearest float, ties to even
RoundToFloat(n, e) ==
  LET a == Abs(n)
      k == Bits(a) - FLT_MANT_DIG
  IN IF k <= 0 THEN Canon(n, e)
     ELSE LET q == a \div Pow2(k)
              r == a % Pow2(k)
              half == Pow2(k - 1)
              mag == IF r > half \/ (r = half /\ q % 2 = 1) THEN q + 1 ELSE q
          IN Canon(IF n < 0 THEN 0 - mag ELSE mag, e + k)

\* a + b in float arithmetic
FloatAdd(a, b) ==
  LET e == Min(a.e, b.e)
  IN RoundToFloat(a.m * Pow2(a.e - e) + b.m * Pow2(b.e - e), e)

\* a - b in float arithmetic
FloatSub(a, b) == FloatAdd(a, [b EXCEPT !.m = 0 - @])

\* The float literal 1.0f
One == IntFloat(1)

\* The values the 'offset' property is set to: the whole numbers of
\* -MaxOffset..MaxOffset, -0.5f, 0.1f (1 + 0.1f is not a float) and 2^24 (the first
\* whole number whose successor is not a float)
Offsets ==
  {IntFloat(v) : v \in (0 - MaxOffset)..MaxOffset}
    \cup {[m |-> 0 - 1, e |-> 0 - 1], [m |-> 13421773, e |-> 0 - 27], [m |-> 1, e |-> 24]}

Counts == 0..MaxCount

max_ii(a, b) == IF a > b THEN a ELSE b

\* rna_Curve_offset_get(ptr): the exposed value of the stored cu->offset
rna_Curve_offset_get(curve) == FloatSub(curve.offset, One)

\* A setter that stores the exposed value minus 1
rna_Curve_offset_set_minus(curve, value) == [curve EXCEPT !.offset = FloatSub(value, One)]

\* rna_Curve_offset_set(ptr, value): the Curve after the call
rna_Curve_offset_set(curve, value) == [curve EXCEPT !.offset = FloatAdd(One, value)]

\* The range without the clamp at 0
rna_Curve_material_index_range_unclamped(curve) ==
  [min |-> 0, max |-> curve.totcol - 1]

\* rna_Curve_material_index_range(ptr, &min, &max, ...)
rna_Curve_material_index_range(curve) ==
  [min |-> 0, max |-> max_ii(0, curve.totcol - 1)]

\* rna_Curve_active_textbox_index_range(ptr, &min, &max, ...)
rna_Curve_active_textbox_index_range(curve) ==
  [min |-> 0, max |-> max_ii(0, curve.totbox - 1)]

Curve0 == [offset |-> One, totcol |-> 0, totbox |-> 0]

Rna0 == [call |-> "none", value |-> 0, min |-> 0, max |-> 0]

CurveOffsetSet ==
  \E value \in Offsets :
    /\ cu' = rna_Curve_offset_set(cu, value)
    /\ rna' = [Rna0 EXCEPT !.call = "rna_Curve_offset_set", !.value = value]
    /\ UNCHANGED <<seqvars, op, info, invvars>>

CurveOffsetGet ==
  /\ rna' = [Rna0 EXCEPT !.call = "rna_Curve_offset_get", !.value = rna_Curve_offset_get(cu)]
  /\ UNCHANGED <<seqvars, op, cu, info, invvars>>

CurveMaterialIndexRange ==
  /\ rna' = [Rna0 EXCEPT !.call = "rna_Curve_material_index_range",
                         !.min = rna_Curve_material_index_range(cu).min,
                         !.max = rna_Curve_material_index_range(cu).max]
  /\ UNCHANGED <<seqvars, op, cu, info, invvars>>

CurveActiveTextboxIndexRange ==
  /\ rna' = [Rna0 EXCEPT !.call = "rna_Curve_active_textbox_index_range",
                         !.min = rna_Curve_active_textbox_index_range(cu).min,
                         !.max = rna_Curve_active_textbox_index_range(cu).max]
  /\ UNCHANGED <<seqvars, op, cu, info, invvars>>

\* The getter without the test for a stored 0
rna_ChariInfo_material_index_get_no_test(ci) == ci.mat_nr - 1

\* rna_ChariInfo_material_index_get(ptr)
rna_ChariInfo_material_index_get(ci) ==
  IF ci.mat_nr # 0 THEN ci.mat_nr - 1 ELSE 0

\* rna_ChariInfo_material_index_set(ptr, value): the CharInfo after the call
rna_ChariInfo_material_index_set(ci, value) == [ci EXCEPT !.mat_nr = value + 1]

CharInfo0 == [mat_nr |-> 0]

ChariInfoMaterialIndexSet ==
  \E value \in Counts :
    /\ info' = rna_ChariInfo_material_index_set(info, value)
    /\ rna' = [Rna0 EXCEPT !.call = "rna_ChariInfo_material_index_set", !.value = value]
    /\ UNCHANGED <<seqvars, op, cu, invvars>>

ChariInfoMaterialIndexGet ==
  /\ rna' = [Rna0 EXCEPT !.call = "rna_ChariInfo_material_index_get",
                         !.value = rna_ChariInfo_material_index_get(info)]
  /\ UNCHANGED <<seqvars, op, cu, info, invvars>>

-----------------------------------------------------------------------------
(* The invoke helpers of the add-strip operators.  Here a strip of the timeline
   also has its type, and a property of the operator is [set, value]. *)

INT_MAX == 2147483647
DEFAULT_IMG_STRIP_LENGTH == 25
SEQ_TYPE_IMAGE == 0
SEQ_TYPE_MOVIE == 3

SeqTypes == {SEQ_TYPE_IMAGE, SEQ_TYPE_MOVIE}

RECURSIVE GuessLoop(_, _, _, _, _)
\* for (seq = ed->seqbasep->first; seq; seq = seq->next) {...}: st is [tgt, proximity]
GuessLoop(sb, i, type, timeline_frame, st) ==
  IF i > Len(sb) THEN st
  ELSE
    LET seq == sb[i]
        strip_end == seq.right
    IN GuessLoop(sb, i + 1, type, timeline_frame,
                 IF /\ type \in {-1, seq.type}
                    /\ strip_end <= timeline_frame
                    /\ timeline_frame - strip_end < st.proximity
                 THEN [tgt |-> i, proximity |-> timeline_frame - strip_end]
                 ELSE st)

RECURSIVE GuessLoop_last(_, _, _, _, _)
\* The loop taking the last of equally near strips
GuessLoop_last(sb, i, type, timeline_frame, st) ==
  IF i > Len(sb) THEN st
  ELSE
    LET seq == sb[i]
        strip_end == seq.right
    IN GuessLoop_last(sb, i + 1, type, timeline_frame,
                      IF /\ type \in {-1, seq.type}
                         /\ strip_end <= timeline_frame
                         /\ timeline_frame - strip_end <= st.proximity
                      THEN [tgt |-> i, proximity |-> timeline_frame - strip_end]
                      ELSE st)

sequencer_generic_invoke_xy_guess_channel_last(sb, timeline_frame, ed, type) ==
  IF ~ed THEN 1
  ELSE
    LET st == GuessLoop_last(sb, 1, type, timeline_frame,
                             [tgt |-> NULL, proximity |-> INT_MAX])
    IN IF st.tgt # NULL
       THEN IF type = SEQ_TYPE_MOVIE THEN sb[st.tgt].machine - 1 ELSE sb[st.tgt].machine
       ELSE 1

\* sequencer_generic_invoke_xy_guess_channel(C, type) on the timeline sb at frame
\* timeline_frame; ed: whether there is editing data with a seqbase
sequencer_generic_invoke_xy_guess_channel(sb, timeline_frame, ed, type) ==
  IF ~ed THEN 1
  ELSE
    LET st == GuessLoop(sb, 1, type, timeline_frame, [tgt |-> NULL, proximity |-> INT_MAX])
    IN IF st.tgt # NULL
       THEN IF type = SEQ_TYPE_MOVIE THEN sb[st.tgt].machine - 1 ELSE sb[st.tgt].machine
       ELSE 1

\* RNA_int_set(op->ptr, name, value)
RNA_int_set(ptr, name, value) == [ptr EXCEPT ![name] = [set |-> TRUE, value |-> value]]

\* RNA_string_set(op->ptr, name, value)
RNA_string_set(ptr, name, value) ==
  [ptr EXCEPT ![name] = [@ EXCEPT !.set = TRUE, !.value = value]]

\* BKE_main_blendfile_path(bmain): the directory of the .blend file
BKE_main_blendfile_path == <<"/", "project">>

\* BLI_path_abs(path, basepath): a path that starts with "//" is relative to the
\* .blend file and gets its directory in place of the "//"; other paths stay.
BLI_path_abs(path, basepath) ==
  IF path # <<>> /\ path[1] = "//" THEN basepath \o Tail(path) ELSE path

\* sequencer_generic_invoke_path__internal(C, op, identifier): last_seq is the active
\* strip (NULL without one), has_path whether it has strip data and a path
\* (last_seq->strip && SEQ_HAS_PATH(last_seq)), dir its last_seq->strip->dir.
sequencer_generic_invoke_path__internal(ptr, identifier, last_seq, has_path, dir) ==
  IF ptr[identifier].exists /\ last_seq # NULL /\ has_path
  THEN RNA_string_set(ptr, identifier, BLI_path_abs(dir, BKE_main_blendfile_path))
  ELSE ptr

\* sequencer_generic_invoke_xy__internal(C, op, flag, type): the properties after it.
\* act is what SEQ_select_active_get returns, with act.has_path and act.dir as in
\* sequencer_generic_invoke_path__internal.
sequencer_generic_invoke_xy__internal(ptr, sb, frame, ed, flag, type, act) ==
  LET timeline_frame == frame
      p1 == IF "SEQPROP_NOCHAN" \notin flag /\ ~ptr["channel"].set
            THEN RNA_int_set(ptr, "channel",
                             sequencer_generic_invoke_xy_guess_channel(sb, frame, ed, type))
            ELSE ptr
      p2 == IF ~p1["frame_start"].set
            THEN RNA_int_set(p1, "frame_start", timeline_frame)
            ELSE p1
      p3 == IF "SEQPROP_ENDFRAME" \in flag /\ ~p2["frame_end"].set
            THEN RNA_int_set(p2, "frame_end",
                             p2["frame_start"].value + DEFAULT_IMG_STRIP_LENGTH)
            ELSE p2
  IN IF "SEQPROP_NOPATHS" \notin flag
     THEN sequencer_generic_invoke_path__internal(
            sequencer_generic_invoke_path__internal(p3, "filepath", act.seq, act.has_path,
                                                    act.dir),
            "directory", act.seq, act.has_path, act.dir)
     ELSE p3

\* The flags of sequencer_generic_invoke_xy__internal that it reads
SeqProps == {"SEQPROP_ENDFRAME", "SEQPROP_NOPATHS", "SEQPROP_NOCHAN"}

\* The properties of an operator nobody has set: their RNA defaults
Ptr0 ==
  [channel |-> [set |-> FALSE, value |-> 1],
   frame_start |-> [set |-> FALSE, value |-> 0],
   frame_end |-> [set |-> FALSE, value |-> 0],
   filepath |-> [exists |-> TRUE, set |-> FALSE, value |-> <<>>],
   directory |-> [exists |-> TRUE, set |-> FALSE, value |-> <<>>]]

\* A path property of an operator: one the operator does not have, one nobody has
\* set, or one the caller set to a directory of its own
PathProps ==
  {[exists |-> FALSE, set |-> FALSE, value |-> <<>>],
   [exists |-> TRUE, set |-> FALSE, value |-> <<>>],
   [exists |-> TRUE, set |-> TRUE, value |-> <<"/", "caller">>]}

\* The directories of the active strip: one relative to the .blend file, one not
StripDirs == {<<"//", "strips">>, <<"/", "media">>}

\* The properties as a caller may have set them before the invoke
OperatorPtrs ==
  {[channel |-> c, frame_start |-> fs, frame_end |-> fe, filepath |-> fp, directory |-> dr] :
     c \in {Ptr0.channel} \cup [set : {TRUE}, value : Channels],
     fs \in {Ptr0.frame_start} \cup [set : {TRUE}, value : Frames],
     fe \in {Ptr0.frame_end} \cup [set : {TRUE}, value : {MaxFrame + MaxLen}],
     fp \in PathProps, dr \in PathProps}

NoStrip == [seq |-> NULL, has_path |-> FALSE, dir |-> <<>>]

\* What SEQ_select_active_get and the active strip answer on the current timeline;
\* they are asked only without SEQPROP_NOPATHS, the directory only of a strip
\* that has a path.
ActiveStrips(ed, flag) ==
  IF "SEQPROP_NOPATHS" \in flag \/ ~ed \/ act_seq = NULL THEN {NoStrip}
  ELSE {[seq |-> act_seq, has_path |-> FALSE, dir |-> <<>>]}
         \cup [seq : {act_seq}, has_path : {TRUE}, dir : StripDirs]

Inv0 ==
  [call |-> "none", flag |-> {}, type |-> -1, ed |-> TRUE, before |-> Ptr0,
   after |-> Ptr0, ret |-> 0,
   act |-> NoStrip]

InvokeGuessChannel ==
  /\ inv.call = "none"
  /\ \E type \in SeqTypes \cup {-1}, ed \in BOOLEAN :
    /\ inv' = [Inv0 EXCEPT !.call = "sequencer_generic_invoke_xy_guess_channel",
                           !.type = type, !.ed = ed,
                           !.ret = sequencer_generic_invoke_xy_guess_channel(
                                     seqbase, cfra, ed, type)]
    /\ UNCHANGED <<seqvars, cu, op, rna, info, cfra>>

InvokeXY ==
  /\ inv.call = "none"
  /\ \E flag \in SUBSET SeqProps, type \in SeqTypes \cup {-1}, ed \in BOOLEAN,
        ptr \in OperatorPtrs :
      \E act \in ActiveStrips(ed, flag) :
        /\ inv' = [Inv0 EXCEPT !.call = "sequencer_generic_invoke_xy__internal",
                               !.flag = flag, !.type = type, !.ed = ed, !.before = ptr,
                               !.act = act,
                               !.after = sequencer_generic_invoke_xy__internal(
                                           ptr, seqbase, cfra, ed, flag, type, act)]
    /\ UNCHANGED <<seqvars, cu, op, rna, info, cfra>>

\* The caller is done with the result of the invoke helper
InvokeReturn ==
  /\ inv.call # "none"
  /\ inv' = Inv0
  /\ UNCHANGED <<seqvars, cu, op, rna, info, cfra>>

-----------------------------------------------------------------------------
(* The operator being handled *)

Op0 ==
  [name |-> "none", props |-> CHOOSE p \in GenericProps : TRUE, ret |-> "NONE",
   log |-> <<>>, reports |-> <<>>, added |-> {}, pre_selected |-> {}, pre_act |-> NULL,
   pre_len |-> 0, pre_running |-> FALSE, pre_queue |-> {}]

\* The window manager is done with the operator (result handled, reports shown).
OperatorFree ==
  /\ ~Idle
  /\ op' = Op0
  /\ UNCHANGED <<seqvars, cu, rna, info, invvars>>

Init ==
  /\ seqbase = <<>>
  /\ selected = {}
  /\ act_seq = NULL
  /\ bmain = [scenes |-> 1, movieclips |-> 1, masks |-> 1]
  /\ alloc_flag \in BOOLEAN
  /\ job_running = FALSE
  /\ job_queue = {}
  /\ cu = Curve0
  /\ op = Op0
  /\ rna = Rna0
  /\ info = CharInfo0
  /\ cfra = 1
  /\ inv = Inv0

Next ==
  \/ SceneStripAdd
  \/ MovieclipStripAdd
  \/ MaskStripAdd
  \/ SceneStripAddNew
  \/ MovieStripAdd
  \/ SoundStripAdd
  \/ ImageStripAdd
  \/ EffectStripAdd
  \/ JobFinish
  \/ OperatorFree

Spec == Init /\ [][Next]_vars

\* The curve data-block and its RNA accessors: any number of material slots and
\* text boxes, any offset the setter can have stored.
InitCurve ==
  /\ seqbase = <<>>
  /\ selected = {}
  /\ act_seq = NULL
  /\ bmain = [scenes |-> 1, movieclips |-> 1, masks |-> 1]
  /\ alloc_flag = TRUE
  /\ job_running = FALSE
  /\ job_queue = {}
  /\ cu \in [offset : {FloatAdd(One, v) : v \in Offsets}, totcol : Counts, totbox : Counts]
  /\ op = Op0
  /\ rna = Rna0
  /\ info \in [mat_nr : 0..(MaxCount + 1)]
  /\ cfra = 1
  /\ inv = Inv0

NextCurve ==
  \/ CurveOffsetSet
  \/ CurveOffsetGet
  \/ CurveMaterialIndexRange
  \/ CurveActiveTextboxIndexRange
  \/ ChariInfoMaterialIndexSet
  \/ ChariInfoMaterialIndexGet

SpecCurve == InitCurve /\ [][NextCurve]_vars

\* The invoke helpers on any timeline of up to MaxInvokeStrips typed strips whose
\* channels are in 1..MAXSEQ, at any current frame.
InvokeFrames == 1..(MaxFrame + 1)

InvokeChannels == Channels \cup {MaxChannel + 1, MAXSEQ}

InvokeStrips ==
  {[type |-> t, machine |-> m, left |-> r - 1, right |-> r] :
     t \in SeqTypes, m \in InvokeChannels, r \in InvokeFrames}

InitInvoke ==
  /\ seqbase \in UNION {[1..n -> InvokeStrips] : n \in 0..MaxInvokeStrips}
  /\ selected = {}
  /\ act_seq \in {NULL} \cup DOMAIN seqbase
  /\ bmain = [scenes |-> 1, movieclips |-> 1, masks |-> 1]
  /\ alloc_flag = TRUE
  /\ job_running = FALSE
  /\ job_queue = {}
  /\ cu = Curve0
  /\ op = Op0
  /\ rna = Rna0
  /\ info = CharInfo0
  /\ cfra \in InvokeFrames
  /\ inv = Inv0

NextInvoke ==
  \/ InvokeGuessChannel
  \/ InvokeXY
  \/ InvokeReturn

SpecInvoke == InitInvoke /\ [][NextInvoke]_vars

-----------------------------------------------------------------------------
(* Reading the log of the operator being handled *)

Idx(e) == {i \in DOMAIN op.log : op.log[i].ev = e}

IdxIn(E) == {i \in DOMAIN op.log : op.log[i].ev \in E}

StripsOf(I) == UNION {op.log[i].strips : i \in I}

AddApis ==
  {"SEQ_add_scene_strip", "SEQ_add_movieclip_strip", "SEQ_add_mask_strip",
   "SEQ_add_movie_strip", "SEQ_add_sound_strip", "SEQ_add_image_strip",
   "SEQ_add_effect_strip"}

\* What seq_load_apply_generic_options calls on a strip
OptionApis ==
  {"SEQ_select_active_set", "SEQ_transform_test_overlap", "SEQ_transform_handle_overlap",
   "SEQ_transform_seqbase_shuffle"}

PostApis ==
  OptionApis \cup
  {"seq_load_apply_generic_options", "seq_load_apply_generic_options_only_test_overlap"}

TagApis == {"DEG_id_tag_update", "DEG_relations_tag_update"}

\* The calls made from position i of the log up to the next call that is not one of
\* seq_load_apply_generic_options' own
OptionCalls(i) ==
  {j \in DOMAIN op.log :
     /\ j > i
     /\ \A k \in (i + 1)..j : op.log[k].ev \in OptionApis}

-----------------------------------------------------------------------------
(* C1..C10 *)

\* C1: in every add-strip exec the load descriptor is built before any strip is
\* inserted, a strip is post-processed (selection, overlap) only after it was
\* inserted and every inserted strip of a finished exec is post-processed, the
\* dependency graph is tagged after all of that, and the notifier is the last call,
\* sent once by every exec that returns FINISHED and by no exec that returns
\* CANCELLED.
C1_ExecOrder ==
  ~Idle =>
    /\ op.ret \in {OPERATOR_FINISHED, OPERATOR_CANCELLED}
    /\ \A i \in IdxIn(AddApis) : \E j \in Idx("load_data_init_from_operator") : j < i
    /\ \A i \in IdxIn(PostApis) : \A s \in op.log[i].strips :
         \E j \in IdxIn(AddApis) : j < i /\ s \in op.log[j].strips
    /\ \A i \in IdxIn(TagApis) : \A j \in IdxIn(AddApis \cup PostApis) : j < i
    /\ \A i \in Idx("WM_event_add_notifier") :
         i = Len(op.log) /\ \E j \in IdxIn(TagApis) : j < i
    /\ op.ret = OPERATOR_FINISHED =>
         /\ Cardinality(Idx("WM_event_add_notifier")) = 1
         /\ IdxIn(AddApis) # {}
         /\ \A s \in op.added : \E i \in IdxIn(PostApis) : s \in op.log[i].strips
    /\ op.ret = OPERATOR_CANCELLED => Idx("WM_event_add_notifier") = {}

\* A movie import of two files that both loaded has finished
C1_Witness ==
  /\ op.name = "movie"
  /\ op.ret = OPERATOR_FINISHED
  /\ Cardinality(StripsOf(Idx("SEQ_add_movie_strip"))) = 2
  /\ Idx("WM_event_add_notifier") # {}

NotFoundOutcome(msg) ==
  /\ op.reports = <<msg>>
  /\ op.ret = OPERATOR_CANCELLED
  /\ op.added = {}
  /\ Len(seqbase) = op.pre_len
  /\ selected = op.pre_selected
  /\ act_seq = op.pre_act

\* C2: when the 'scene' / 'clip' / 'mask' index names no data-block the exec adds
\* exactly one error report, returns CANCELLED, adds no strip and leaves the
\* selection and the active strip as they were, also with replace_sel.
C2_NotFound ==
  /\ (op.name = "scene" /\ op.props.id >= bmain.scenes) => NotFoundOutcome("Scene not found")
  /\ (op.name = "movieclip" /\ op.props.id >= bmain.movieclips)
       => NotFoundOutcome("Movie clip not found")
  /\ (op.name = "mask" /\ op.props.id >= bmain.masks) => NotFoundOutcome("Mask not found")

\* A scene strip was asked for a scene that does not exist, with replace_sel, on a
\* timeline with a selected, active strip
C2_Witness ==
  /\ op.name = "scene"
  /\ op.props.id >= bmain.scenes
  /\ op.props.replace_sel
  /\ op.pre_selected # {}
  /\ op.pre_act # NULL

\* C3: in a movie or sound import of several files every file is attempted once, in
\* list order; a file that fails to load gives exactly one report, right after the
\* failed insertion, and nothing else is done for it; the strips added are those
\* of the files that loaded.
C3_MultiFileSkip ==
  (op.name \in {"movie", "sound"} /\ op.props.tot_files > 1) =>
    LET api == IF op.name = "movie" THEN "SEQ_add_movie_strip" ELSE "SEQ_add_sound_strip"
        Tries == Idx(api)
        Fails == {i \in Tries : ~op.log[i].res}
        Loaded == {op.log[i].file : i \in Tries \ Fails}
    IN /\ \A k \in 1..op.props.tot_files :
            Cardinality({i \in Tries : op.log[i].file = k}) = 1
       /\ \A i, j \in Tries : i < j => op.log[i].file < op.log[j].file
       /\ \A i \in Fails :
            /\ i < Len(op.log)
            /\ op.log[i + 1].ev = "BKE_report"
            /\ {j \in DOMAIN op.log : op.log[j].file = op.log[i].file} = {i, i + 1}
       /\ Cardinality(Idx("BKE_report")) = Cardinality(Fails)
       /\ Len(op.reports) = Cardinality(Fails)
       /\ \A r \in DOMAIN op.reports : op.reports[r] = "File '%s' could not be loaded"
       /\ \A k \in Loaded : \E i \in Tries : op.log[i].file = k /\ op.log[i].strips \subseteq op.added
                                             /\ op.log[i].strips # {}
       /\ \A i \in IdxIn(AddApis) : op.log[i].strips # {} => op.log[i].file \in Loaded
       /\ op.added = StripsOf(IdxIn(AddApis))
       /\ Len(seqbase) = op.pre_len + Cardinality(op.added)

\* A movie import of two files: the first failed to load, the second loaded
C3_Witness ==
  /\ op.name = "movie"
  /\ op.props.tot_files = 2
  /\ \E i, j \in Idx("SEQ_add_movie_strip") : i < j /\ ~op.log[i].res /\ op.log[j].res
  /\ Len(op.reports) = 1

\* C4: the movie exec returns FINISHED exactly when a movie strip was added; when
\* every file failed it returns CANCELLED, enqueues no proxy work, starts no job
\* and sends no notifier.
C4_MovieResult ==
  op.name = "movie" =>
    LET Loaded == {i \in Idx("SEQ_add_movie_strip") : op.log[i].res} IN
    /\ (op.ret = OPERATOR_FINISHED) <=> (Loaded # {})
    /\ (op.ret = OPERATOR_FINISHED) <=> (Len(seqbase) > op.pre_len)
    /\ Loaded = {} =>
         /\ op.ret = OPERATOR_CANCELLED
         /\ Idx("SEQ_proxy_rebuild_context") = {}
         /\ Idx("WM_jobs_start") = {}
         /\ Idx("WM_event_add_notifier") = {}
         /\ job_running = op.pre_running
         /\ job_queue = op.pre_queue

\* A movie import of two files with automatic proxies: both failed to load
C4_Witness ==
  /\ op.name = "movie"
  /\ op.props.tot_files = 2
  /\ op.props.proxy_auto
  /\ Len(op.reports) = 2
  /\ op.ret = OPERATOR_CANCELLED

\* C5: the sound exec returns CANCELLED whenever no sound strip was added, and
\* FINISHED only if one was added.
C5_SoundResult ==
  op.name = "sound" =>
    /\ op.added = {} => op.ret = OPERATOR_CANCELLED
    /\ op.ret = OPERATOR_FINISHED => op.added # {}

\* C6: seq_load_apply_generic_options on a strip: with 'overlap' set or a strip that
\* does not overlap neither overlap routine is called; otherwise exactly one is,
\* SEQ_transform_handle_overlap with 'overlap_shuffle_override' and
\* SEQ_transform_seqbase_shuffle without.  On a NULL strip it calls nothing and
\* selects nothing.
C6_OverlapPolicy ==
  \A i \in Idx("seq_load_apply_generic_options") :
    LET calls == OptionCalls(i)
        Called(e) == {j \in calls : op.log[j].ev = e}
        overlapping == \E j \in Called("SEQ_transform_test_overlap") : op.log[j].res
        handle == Cardinality(Called("SEQ_transform_handle_overlap"))
        shuffle == Cardinality(Called("SEQ_transform_seqbase_shuffle"))
    IN IF op.log[i].strips = {}
       THEN calls = {}
       ELSE /\ \A j \in calls : op.log[j].strips = op.log[i].strips
            /\ ~op.props.overlap => Cardinality(Called("SEQ_transform_test_overlap")) = 1
            /\ (op.props.overlap \/ ~overlapping) => (handle = 0 /\ shuffle = 0)
            /\ (~op.props.overlap /\ overlapping) =>
                 IF op.props.overlap_shuffle_override
                 THEN handle = 1 /\ shuffle = 0
                 ELSE handle = 0 /\ shuffle = 1

\* A movie whose sound did not load was added without the override: the options
\* were applied to a NULL sound strip and to a movie strip that overlapped
C6_Witness ==
  /\ op.name = "movie"
  /\ \E i \in Idx("seq_load_apply_generic_options") : op.log[i].strips = {}
  /\ Idx("SEQ_transform_seqbase_shuffle") # {}

\* C7: the proxy job is started only when it is not running, at most once per
\* exec, and only after every movie strip of the exec was enqueued.
C7_ProxyJob ==
  op.name = "movie" =>
    LET starts == Idx("WM_jobs_start")
        enq == Idx("SEQ_proxy_rebuild_context")
    IN /\ starts # {} => ~op.pre_running
       /\ Cardinality(starts) <= 1
       /\ \A i \in starts :
            /\ \A j \in enq : j < i
            /\ StripsOf(enq) = StripsOf(Idx("SEQ_add_movie_strip"))
       /\ (op.props.proxy_auto /\ op.ret = OPERATOR_FINISHED) =>
            /\ job_running
            /\ (starts = {}) = op.pre_running
            /\ StripsOf(enq) \subseteq job_queue

\* A movie was added with automatic proxies while the proxy job was running
C7_Witness ==
  /\ op.name = "movie"
  /\ op.pre_running
  /\ Idx("SEQ_proxy_rebuild_context") # {}
  /\ Idx("WM_jobs_start") = {}

\* The float x is the exact number a + d rounded to the nearest float: x has at
\* most FLT_MANT_DIG mantissa bits, it is a + d itself when a + d is a float, and
\* otherwise lies within half a unit of the last place of a + d.
IsNearestFloat(x, a, d) ==
  LET e == Min(Min(x.e, a.e), 0)
      exact == a.m * Pow2(a.e - e) + d * Pow2(0 - e)
      err == Abs(x.m * Pow2(x.e - e) - exact)
      k == Bits(Abs(exact)) - FLT_MANT_DIG
  IN /\ Bits(Abs(x.m)) <= FLT_MANT_DIG
     /\ IF k <= 0 \/ Abs(exact) % Pow2(k) = 0 THEN err = 0 ELSE 2 * err <= Pow2(k)

\* C8: the claim as stated: after rna_Curve_offset_set with exposed value v the
\* stored offset is v - 1.
C8_OffsetStoredMinusOne ==
  rna.call = "rna_Curve_offset_set" =>
    LET e == Min(Min(cu.offset.e, rna.value.e), 0)
    IN cu.offset.m * Pow2(cu.offset.e - e) = rna.value.m * Pow2(rna.value.e - e) - Pow2(0 - e)

\* C8, as the code has it: after rna_Curve_offset_set with exposed value v the
\* stored offset is v + 1 rounded to the nearest float (v + 1 itself whenever that
\* is a float), and rna_Curve_offset_get returns the stored offset minus 1, rounded
\* the same way.
C8_OffsetStoredPlusOne ==
  /\ rna.call = "rna_Curve_offset_set" => IsNearestFloat(cu.offset, rna.value, 1)
  /\ rna.call = "rna_Curve_offset_get" => IsNearestFloat(rna.value, cu.offset, 0 - 1)

\* The offset was set to 0.1f, and 1 + 0.1f was rounded to 9227469 * 2^-23
C8_Witness ==
  /\ rna.call = "rna_Curve_offset_set"
  /\ rna.value = [m |-> 13421773, e |-> 0 - 27]
  /\ cu.offset = [m |-> 9227469, e |-> 0 - 23]

WellFormedRange(count) ==
  /\ rna.min = 0
  /\ rna.min <= rna.max
  /\ count = 0 => rna.max = 0
  /\ count >= 1 => rna.max = count - 1

\* C9: the range reported for material_index and for active_textbox has min 0 and
\* max count - 1, or 0 when there is no slot / text box, so min <= max always.
C9_IndexRanges ==
  /\ rna.call = "rna_Curve_material_index_range" => WellFormedRange(cu.totcol)
  /\ rna.call = "rna_Curve_active_textbox_index_range" => WellFormedRange(cu.totbox)

\* The material index range was asked of a curve without material slots
C9_Witness ==
  /\ rna.call = "rna_Curve_material_index_range"
  /\ cu.totcol = 0
  /\ rna.max = 0

\* C10: after a FINISHED exec with replace_sel the selected strips are the strips
\* the exec added and the active strip is one of them (a movie strip for the movie
\* operator); without replace_sel no strip is deselected and the active strip
\* stays.
C10_ReplaceSelection ==
  (~Idle /\ op.ret = OPERATOR_FINISHED) =>
    IF op.props.replace_sel
    THEN /\ selected = op.added
         /\ act_seq \in op.added
         /\ op.name = "movie" => act_seq \in StripsOf(Idx("SEQ_add_movie_strip"))
    ELSE /\ op.pre_selected \subseteq selected
         /\ act_seq = op.pre_act

\* C11: an add-strip exec that returns CANCELLED leaves the selection as it was:
\* no strip selected before the call is deselected, whatever replace_sel is.
C11_CancelKeepsSelection ==
  (~Idle /\ op.ret = OPERATOR_CANCELLED) =>
    /\ op.pre_selected \subseteq selected
    /\ selected = op.pre_selected

\* C12: the channel sequencer_generic_invoke_xy_guess_channel returns is in
\* 1..MAXSEQ, for every strip type and every timeline with strips on channels
\* 1..MAXSEQ.
C12_GuessInRange ==
  inv.call = "sequencer_generic_invoke_xy_guess_channel" => inv.ret \in 1..MAXSEQ

\* The strips of the timeline the guess can take: of the requested type, ending at
\* or before the current frame
Candidates ==
  {i \in DOMAIN seqbase : inv.type \in {-1, seqbase[i].type} /\ seqbase[i].right <= cfra}

Nearest ==
  {i \in Candidates : \A j \in Candidates : cfra - seqbase[i].right <= cfra - seqbase[j].right}

\* C13: sequencer_generic_invoke_xy_guess_channel returns 1 without editing data
\* or without a strip of the requested type ending at or before the current
\* frame; otherwise its result comes from the nearest such strip, the first in the
\* list among equally near ones: its channel, or its channel minus 1 for type
\* SEQ_TYPE_MOVIE.
C13_GuessNearest ==
  inv.call = "sequencer_generic_invoke_xy_guess_channel" =>
    IF ~inv.ed \/ Candidates = {}
    THEN inv.ret = 1
    ELSE LET tgt == CHOOSE i \in Nearest : \A j \in Nearest : i <= j
         IN inv.ret = IF inv.type = SEQ_TYPE_MOVIE
                      THEN seqbase[tgt].machine - 1
                      ELSE seqbase[tgt].machine

\* The channel was guessed on a timeline with two equally near strips of the type
\* on different channels
C13_Witness ==
  /\ inv.call = "sequencer_generic_invoke_xy_guess_channel"
  /\ inv.ed
  /\ Cardinality(Nearest) = 2
  /\ \E i, j \in Nearest : i < j /\ seqbase[i].machine # seqbase[j].machine
                           /\ inv.ret = seqbase[i].machine

\* C14: sequencer_generic_invoke_xy__internal never overwrites a property the
\* caller already set; unset, frame_start becomes the current frame, frame_end
\* becomes the final frame_start + DEFAULT_IMG_STRIP_LENGTH with SEQPROP_ENDFRAME
\* and stays unset without, and channel is written without SEQPROP_NOCHAN and
\* stays unset with it.
C14_InvokeKeepsSet ==
  inv.call = "sequencer_generic_invoke_xy__internal" =>
    LET b == inv.before
        a == inv.after
    IN /\ \A n \in DOMAIN b : b[n].set => a[n] = b[n]
       /\ ~b.frame_start.set => a.frame_start = [set |-> TRUE, value |-> cfra]
       /\ ~b.frame_end.set =>
            IF "SEQPROP_ENDFRAME" \in inv.flag
            THEN a.frame_end = [set |-> TRUE,
                                value |-> a.frame_start.value + DEFAULT_IMG_STRIP_LENGTH]
            ELSE a.frame_end = b.frame_end
       /\ ~b.channel.set =>
            IF "SEQPROP_NOCHAN" \in inv.flag THEN a.channel = b.channel ELSE a.channel.set

\* The insertion call of a multi-file import that tried the k-th file's own strip
TryOf(k) ==
  CHOOSE i \in Idx(IF op.name = "movie" THEN "SEQ_add_movie_strip" ELSE "SEQ_add_sound_strip") :
    op.log[i].file = k

\* Length of the strip of the k-th file (right handle minus left handle), 0 if the
\* file did not load
LenOfFile(k) ==
  LET e == op.log[TryOf(k)]
  IN IF e.res
     THEN LET s == CHOOSE q \in e.strips : TRUE IN e.geom[s].right - e.geom[s].left
     ELSE 0

RECURSIVE SumLens(_)
SumLens(k) == IF k = 0 THEN 0 ELSE SumLens(k - 1) + LenOfFile(k)

\* C15: in a movie or sound import of several files the start frame given to the
\* insertion API for the k-th file is frame_start plus the lengths of the strips
\* of the files that loaded before it; a file that did not load adds nothing.
C15_EndToEnd ==
  (op.name \in {"movie", "sound"} /\ op.props.tot_files > 1) =>
    \A i \in IdxIn({"SEQ_add_movie_strip", "SEQ_add_sound_strip"}) :
      LET e == op.log[i]
      IN /\ e.frame = op.props.frame_start + SumLens(e.file - 1)
         /\ \A s \in e.strips : e.geom[s].left = e.frame

\* Two movie files were imported: the first loaded and is two frames long, and
\* the second was inserted two frames after frame_start
C15_Witness ==
  /\ op.name = "movie"
  /\ op.props.tot_files = 2
  /\ \E i, j \in Idx("SEQ_add_movie_strip") :
       /\ op.log[i].file = 1 /\ op.log[i].res /\ LenOfFile(1) = 2
       /\ op.log[j].file = 2 /\ op.log[j].res
       /\ op.log[j].frame = op.props.frame_start + 2

ApplyApis ==
  {"seq_load_apply_generic_options", "seq_load_apply_generic_options_only_test_overlap"}

\* The strip as it was when the exec applied the generic options to it
AtApply(seq) ==
  LET j == CHOOSE k \in IdxIn(ApplyApis) : op.log[k].strips = {seq}
  IN op.log[j].geom[seq]

\* C16: a movie added together with its sound strip is one channel above the
\* requested channel, its sound strip is on the requested channel and has the
\* movie strip's left and right handles; a movie added without a sound strip is on
\* the requested channel.  The movie strip's handles are as it was inserted.
C16_MovieAboveSound ==
  op.name = "movie" =>
    /\ ~op.props.sound => Idx("SEQ_add_sound_strip") = {}
    /\ \A i \in Idx("SEQ_add_movie_strip") : \A m \in op.log[i].strips :
         LET sounds == StripsOf({u \in Idx("SEQ_add_sound_strip") :
                                   op.log[u].file = op.log[i].file})
         IN /\ AtApply(m).left = op.log[i].geom[m].left
            /\ AtApply(m).right = op.log[i].geom[m].right
            /\ sounds = {} => AtApply(m).machine = op.props.channel
            /\ \A sd \in sounds :
                 /\ op.props.sound
                 /\ AtApply(m).machine = op.props.channel + 1
                 /\ AtApply(sd).machine = op.props.channel
                 /\ AtApply(sd).left = AtApply(m).left
                 /\ AtApply(sd).right = AtApply(m).right

\* A movie was added with a sound strip that was inserted with another length than
\* the movie strip's
C16_Witness ==
  /\ op.name = "movie"
  /\ op.props.sound
  /\ \E i \in Idx("SEQ_add_movie_strip"), u \in Idx("SEQ_add_sound_strip") :
       \E m \in op.log[i].strips, sd \in op.log[u].strips :
         /\ op.log[u].file = op.log[i].file
         /\ op.log[u].geom[sd].right # op.log[i].geom[m].right
         /\ AtApply(sd).right = AtApply(m).right
         /\ AtApply(m).machine = op.props.channel + 1

\* C17: in a movie import with 'overlap' false and 'overlap_shuffle_override' true
\* SEQ_transform_handle_overlap is called at most once, after every file was added
\* and tested, exactly when a strip of the import overlapped, and on the collection
\* of all movie and sound strips the exec added; SEQ_transform_seqbase_shuffle is
\* not called.
C17_OverrideOnce ==
  (op.name = "movie" /\ ~op.props.overlap /\ op.props.overlap_shuffle_override) =>
    LET handle == Idx("SEQ_transform_handle_overlap")
        tests == Idx("SEQ_transform_test_overlap")
    IN /\ Cardinality(handle) <= 1
       /\ Idx("SEQ_transform_seqbase_shuffle") = {}
       /\ Idx("seq_load_apply_generic_options") = {}
       /\ StripsOf(tests) = op.added
       /\ (handle # {}) = (\E t \in tests : op.log[t].res)
       /\ \A h \in handle :
            /\ \A j \in IdxIn(AddApis \cup ApplyApis) \cup tests : j < h
            /\ op.log[h].strips = op.added
            /\ op.added = StripsOf(Idx("SEQ_add_movie_strip")) \cup
                          StripsOf(Idx("SEQ_add_sound_strip"))

\* Two movies with sound were imported with the override; only a strip of the
\* first file overlapped, and the overlap was resolved on the four strips
C17_Witness ==
  /\ op.name = "movie"
  /\ ~op.props.overlap
  /\ op.props.overlap_shuffle_override
  /\ Cardinality(op.added) = 4
  /\ \A t \in Idx("SEQ_transform_test_overlap") : op.log[t].res => op.log[t].file = 1
  /\ \E h \in Idx("SEQ_transform_handle_overlap") : op.log[h].strips = op.added

\* C18: the effect exec looks its inputs up in the selection as it was before the
\* call, before replace_sel clears it and before it adds the strip; when the
\* lookup fails it reports the lookup's message, returns CANCELLED, adds no strip
\* and leaves the selection as it was.
C18_EffectLookupFirst ==
  op.name = "effect" =>
    LET look == Idx("seq_effect_find_selected") IN
    /\ Cardinality(look) = 1
    /\ \A i \in look :
         /\ op.log[i].strips = op.pre_selected
         /\ \A j \in Idx("ED_sequencer_deselect_all") \cup IdxIn(AddApis) : i < j
         /\ op.log[i].res => op.ret = OPERATOR_FINISHED
         /\ ~op.log[i].res =>
              /\ op.reports = <<"effect inputs not found">>
              /\ op.ret = OPERATOR_CANCELLED
              /\ op.added = {}
              /\ Len(seqbase) = op.pre_len
              /\ selected = op.pre_selected
              /\ act_seq = op.pre_act

\* An effect was asked for with replace_sel on a timeline with a selected strip,
\* and the lookup of its inputs failed
C18_Witness ==
  /\ op.name = "effect"
  /\ op.props.replace_sel
  /\ op.pre_selected # {}
  /\ \E i \in Idx("seq_effect_find_selected") : ~op.log[i].res
  /\ op.ret = OPERATOR_CANCELLED

\* C19: after rna_ChariInfo_material_index_set(v), v >= 0, the field holds v + 1
\* and rna_ChariInfo_material_index_get returns v; for a stored value >= 0 the
\* getter returns no negative index: 0 for stored 0 and for stored 1, the stored
\* value minus 1 above.
C19_MaterialIndexRoundTrip ==
  /\ rna.call = "rna_ChariInfo_material_index_set" =>
       /\ info.mat_nr = rna.value + 1
       /\ rna_ChariInfo_material_index_get(info) = rna.value
  /\ rna.call = "rna_ChariInfo_material_index_get" =>
       /\ rna.value >= 0
       /\ info.mat_nr \in {0, 1} => rna.value = 0
       /\ info.mat_nr >= 1 => rna.value = info.mat_nr - 1

\* The material index was read from a character whose stored number is 0
C19_Witness ==
  /\ rna.call = "rna_ChariInfo_material_index_get"
  /\ info.mat_nr = 0
  /\ rna.value = 0

====
